---- MODULE Spec2Model ----
(***************************************************************************)
(* SortVision: the metrics ranking card (RankingCard.jsx), the ranking     *)
(* that feeds it, the mobile overlay (MobileOverlay.jsx) and the sound     *)
(* toggle (SoundButton.jsx), as state machines.                            *)
(*                                                                         *)
(* JavaScript Numbers are IEEE-754 binary64.  The card computes            *)
(*   Math.round((parseFloat(t) / parseFloat(c) - 1) * 100)                 *)
(* in that arithmetic, so the model carries the 53-bit significands as       *)
(* sequences of 15-bit limbs (least significant first) and rounds every    *)
(* operation to nearest, ties to even, as the hardware does.               *)
(***************************************************************************)
EXTENDS Integers, Naturals, Sequences, FiniteSets, TLC

VARIABLES
  \* RankingCard.jsx: the props of one card and what it rendered
  algo, algoMetrics, algorithm, currentAlgoMetrics, rendered, comparison,
  \* the metrics panel that ranks the records and creates the cards
  records, cards,
  \* MobileOverlay.jsx: storage, device, component, page, scheduler
  lsContinue, lsDesktop, uaMobile, innerWidth,
  mounted, hasRequestedDesktop, listening, animationStage,
  visible, bodyOverflow, viewportScale, desktopClass,
  rafQueue, timers, mounts, clicks, orientationEvents,
  \* SoundButton.jsx: storage, component state, handlers in flight, engine
  lsSound, isEnabled, pendingUpdates, handlers, engineInitialized, toggles

cardVars == <<algo, algoMetrics, algorithm, currentAlgoMetrics, rendered,
              comparison>>

panelVars == <<records, cards>>

overlayVars == <<lsContinue, lsDesktop, uaMobile, innerWidth, mounted,
                 hasRequestedDesktop, listening, animationStage, visible,
                 bodyOverflow, viewportScale, desktopClass, rafQueue, timers,
                 mounts, clicks, orientationEvents>>

soundVars == <<lsSound, isEnabled, pendingUpdates, handlers,
               engineInitialized, toggles>>

vars == <<cardVars, panelVars, overlayVars, soundVars>>

(***************************************************************************)
(* Natural numbers of arbitrary size: sequences of limbs in 0..LimbBase-1, *)
(* index 1 the least significant, no leading (high) zero limb; <<>> is 0.  *)
(***************************************************************************)
MantissaBits == 53

\* Half of the 30 bits a product of two limbs may take in 32-bit integers
LimbBits == 30 \div 2

RECURSIVE Pow2(_)
Pow2(n) == IF n = 0 THEN 1 ELSE 2 * Pow2(n - 1)

LimbBase == Pow2(LimbBits)

RECURSIVE Trim(_)
Trim(a) ==
  IF a = <<>> THEN <<>>
  ELSE IF a[Len(a)] = 0 THEN Trim(SubSeq(a, 1, Len(a) - 1))
  ELSE a

RECURSIVE NatToBig(_)
NatToBig(n) ==
  IF n = 0 THEN <<>> ELSE <<n % LimbBase>> \o NatToBig(n \div LimbBase)

\* only for values below 2^31
RECURSIVE BigToNat(_)
BigToNat(a) == IF a = <<>> THEN 0 ELSE a[1] + LimbBase * BigToNat(Tail(a))

LimbAt(a, i) == IF i >= 1 /\ i <= Len(a) THEN a[i] ELSE 0

RECURSIVE AddC(_, _, _, _)
AddC(a, b, i, c) ==
  IF i > Len(a) /\ i > Len(b) THEN (IF c = 0 THEN <<>> ELSE <<c>>)
  ELSE LET s == LimbAt(a, i) + LimbAt(b, i) + c
       IN <<s % LimbBase>> \o AddC(a, b, i + 1, s \div LimbBase)

BigAdd(a, b) == Trim(AddC(a, b, 1, 0))

\* a - b for a >= b, with borrow
RECURSIVE SubB(_, _, _, _)
SubB(a, b, i, br) ==
  IF i > Len(a) THEN <<>>
  ELSE LET d == a[i] - LimbAt(b, i) - br
       IN IF d >= 0 THEN <<d>> \o SubB(a, b, i + 1, 0)
          ELSE <<d + LimbBase>> \o SubB(a, b, i + 1, 1)

BigSub(a, b) == Trim(SubB(a, b, 1, 0))

RECURSIVE BigLessFrom(_, _, _)
BigLessFrom(a, b, i) ==
  IF i = 0 THEN FALSE
  ELSE IF a[i] # b[i] THEN a[i] < b[i]
  ELSE BigLessFrom(a, b, i - 1)

BigLess(a, b) ==
  IF Len(a) # Len(b) THEN Len(a) < Len(b) ELSE BigLessFrom(a, b, Len(a))

\* a * c for a natural c <= LimbBase
RECURSIVE MulC(_, _, _, _)
MulC(a, c, i, carry) ==
  IF i > Len(a) THEN NatToBig(carry)
  ELSE LET p == a[i] * c + carry
       IN <<p % LimbBase>> \o MulC(a, c, i + 1, p \div LimbBase)

BigMulSmall(a, c) == Trim(MulC(a, c, 1, 0))

\* a \div d and a % d for a natural 0 < d <= LimbBase, from the top limb down
RECURSIVE DivRem(_, _, _, _)
DivRem(a, d, i, rem) ==
  IF i = 0 THEN rem ELSE DivRem(a, d, i - 1, (rem * LimbBase + a[i]) % d)

BigRemSmall(a, d) == DivRem(a, d, Len(a), 0)

BigDivSmall(a, d) ==
  Trim([i \in 1..Len(a) |->
          (DivRem(SubSeq(a, i + 1, Len(a)), d, Len(a) - i, 0) * LimbBase
           + a[i]) \div d])

RECURSIVE BitLenNat(_)
BitLenNat(n) == IF n = 0 THEN 0 ELSE 1 + BitLenNat(n \div 2)

BitLen(a) ==
  IF a = <<>> THEN 0 ELSE (Len(a) - 1) * LimbBits + BitLenNat(a[Len(a)])

\* a * 2^n
ShiftLeft(a, n) ==
  IF a = <<>> THEN <<>>
  ELSE [i \in 1..(n \div LimbBits) |-> 0]
       \o BigMulSmall(a, Pow2(n % LimbBits))

\* a \div 2^n
ShiftRight(a, n) ==
  LET w == n \div LimbBits
      s == n % LimbBits
  IN IF w >= Len(a) THEN <<>>
     ELSE Trim([i \in 1..(Len(a) - w) |->
                  (a[i + w] \div Pow2(s))
                  + (LimbAt(a, i + w + 1) % Pow2(s)) * Pow2(LimbBits - s)])

\* bit i of a, bit 1 the least significant
BitAt(a, i) ==
  IF i < 1 THEN 0
  ELSE (LimbAt(a, ((i - 1) \div LimbBits) + 1)
          \div Pow2((i - 1) % LimbBits)) % 2

\* Is any of the n low bits of a set
AnySet(a, n) ==
  n >= 1 /\ \E i \in 1..Len(a) :
             /\ a[i] # 0
             /\ \/ i <= n \div LimbBits
                \/ i = (n \div LimbBits) + 1 /\ a[i] % Pow2(n % LimbBits) # 0

(***************************************************************************)
(* A finite binary64 value is sign * N * 2^k with N < 2^53.                *)
(* RoundNearestEven keeps the top 53 bits of N and rounds on the rest.     *)
(***************************************************************************)
RoundNearestEven(N, k) ==
  IF BitLen(N) <= MantissaBits THEN [N |-> N, k |-> k]
  ELSE LET d == BitLen(N) - MantissaBits
           kept == ShiftRight(N, d)
           up == /\ BitAt(N, d) = 1
                 /\ (AnySet(N, d - 1) \/ BitAt(kept, 1) = 1)
       IN [N |-> IF up THEN BigAdd(kept, <<1>>) ELSE kept, k |-> k + d]

(***************************************************************************)
(* Number values.  kind "finite" is sign * N * 2^k (N = <<>> is zero);     *)
(* kind "Infinity" is the result of a division by zero.                    *)
(***************************************************************************)
Finite(sign, N, k) == [kind |-> "finite", sign |-> sign, N |-> N, k |-> k]

PosInfinity == [kind |-> "Infinity", sign |-> 1, N |-> <<>>, k |-> 0]

\* Enough quotient bits that the 53 kept ones, the guard bit and a sticky
\* bit are all present for every r / b >= 2^-LimbBits
DivFracBits == MantissaBits + LimbBits + 2

\* r / b for naturals r > 0, b < LimbBase: the correctly rounded binary64
\* quotient; a division by zero is Infinity
NumDiv(r, b) ==
  IF b = 0 THEN PosInfinity
  ELSE LET num == ShiftLeft(NatToBig(r), DivFracBits)
           q == BigDivSmall(num, b)
           st == IF BigRemSmall(num, b) > 0 THEN 1 ELSE 0
           rn == RoundNearestEven(BigAdd(ShiftLeft(q, 1), NatToBig(st)),
                                  -(DivFracBits + 1))
       IN Finite(1, rn.N, rn.k)

\* x - 1 for x >= 0
NumSubOne(x) ==
  IF x.kind = "Infinity" THEN x
  ELSE LET sh == IF x.k > 0 THEN x.k ELSE 0
           xN == ShiftLeft(x.N, sh)
           xk == x.k - sh
           one == ShiftLeft(<<1>>, -xk)
           neg == BigLess(xN, one)
           diff == IF neg THEN BigSub(one, xN) ELSE BigSub(xN, one)
           rn == RoundNearestEven(diff, xk)
       IN Finite(IF neg THEN -1 ELSE 1, rn.N, rn.k)

\* x * c for an integer c # 0, |c| <= LimbBase
NumMul(x, c) ==
  LET cs == IF c < 0 THEN -1 ELSE 1
  IN IF x.kind = "Infinity" THEN [x EXCEPT !.sign = x.sign * cs]
     ELSE LET rn == RoundNearestEven(BigMulSmall(x.N, c * cs), x.k)
          IN Finite(x.sign * cs, rn.N, rn.k)

(***************************************************************************)
(* Math.round: the integer closest to x, the one nearer +Infinity when two *)
(* are equally close.  The result is an integer, or "Infinity".            *)
(***************************************************************************)
MathRound(x) ==
  IF x.kind = "Infinity" THEN [kind |-> "Infinity", val |-> x.sign]
  ELSE IF x.k >= 0
    THEN [kind |-> "int", val |-> x.sign * BigToNat(ShiftLeft(x.N, x.k))]
  ELSE LET whole == BigToNat(ShiftRight(x.N, -x.k))
           half == BitAt(x.N, -x.k)
           below == AnySet(x.N, -x.k - 1)
       IN [kind |-> "int",
           val |-> IF x.sign = 1 THEN whole + half
                   ELSE -(whole + (IF half = 1 /\ below THEN 1 ELSE 0))]

(***************************************************************************)
(* RankingCard.jsx                                                         *)
(***************************************************************************)
\* Largest measured time (ms) the card is rendered with
MaxTime == 100

\* The times of the worked examples: 140 against 120, 199 and 201 against 200
ExampleTimes == {120, 140, 199, 200, 201}

Times == (0..MaxTime) \cup ExampleTimes

Algos == {"quick", "merge"}

\* currentAlgoMetrics when the panel has no record of the current algorithm
NoMetrics == [defined |-> FALSE, time |-> 0]

MetricsOf(t) == [defined |-> TRUE, time |-> t]

\* parseFloat of a time: an integer-valued Number prints as its decimal
\* digits and parses back to the same value
ParseFloat(t) == t

NoComparison == [shown |-> FALSE, direction |-> "none",
                 percent |-> [kind |-> "none", val |-> 0]]

\* {Math.round((parseFloat(t) / parseFloat(c) - 1) * factor)}
PercentText(t, c, factor) ==
  MathRound(NumMul(NumSubOne(NumDiv(ParseFloat(t), ParseFloat(c))), factor))

\* The block with "<=" for "<": equal times reported as faster
ComparisonLessEqual(a, am, cur, cm) ==
  IF a # cur /\ cm.defined /\ am.time > 0
  THEN IF ParseFloat(am.time) <= ParseFloat(cm.time)
       THEN [shown |-> TRUE, direction |-> "faster",
             percent |-> PercentText(am.time, cm.time, -100)]
       ELSE [shown |-> TRUE, direction |-> "slower",
             percent |-> PercentText(am.time, cm.time, 100)]
  ELSE NoComparison

\* The block with the faster branch multiplying by 100, not -100
ComparisonSameSign(a, am, cur, cm) ==
  IF a # cur /\ cm.defined /\ am.time > 0
  THEN IF ParseFloat(am.time) < ParseFloat(cm.time)
       THEN [shown |-> TRUE, direction |-> "faster",
             percent |-> PercentText(am.time, cm.time, 100)]
       ELSE [shown |-> TRUE, direction |-> "slower",
             percent |-> PercentText(am.time, cm.time, 100)]
  ELSE NoComparison

\* The "Comparison with current algorithm" block of the card
Comparison(a, am, cur, cm) ==
  IF a # cur /\ cm.defined /\ am.time > 0
  THEN IF ParseFloat(am.time) < ParseFloat(cm.time)
       THEN [shown |-> TRUE, direction |-> "faster",
             percent |-> PercentText(am.time, cm.time, -100)]
       ELSE [shown |-> TRUE, direction |-> "slower",
             percent |-> PercentText(am.time, cm.time, 100)]
  ELSE NoComparison

CardInit ==
  /\ algo \in Algos
  /\ algorithm \in Algos
  /\ algoMetrics \in {MetricsOf(t) : t \in Times}
  /\ currentAlgoMetrics \in {NoMetrics} \cup {MetricsOf(t) : t \in Times}
  /\ rendered = FALSE
  /\ comparison = NoComparison

CardIdle ==
  /\ algo = "quick"
  /\ algorithm = "quick"
  /\ algoMetrics = MetricsOf(0)
  /\ currentAlgoMetrics = NoMetrics
  /\ rendered = FALSE
  /\ comparison = NoComparison

\* React renders the card with its props
Render ==
  /\ ~rendered
  /\ rendered' = TRUE
  /\ comparison' = Comparison(algo, algoMetrics, algorithm, currentAlgoMetrics)
  /\ UNCHANGED <<algo, algoMetrics, algorithm, currentAlgoMetrics>>
  /\ UNCHANGED <<panelVars, overlayVars, soundVars>>

(***************************************************************************)
(* The metrics panel: it ranks the measured records and hands each ranked  *)
(* entry to a RankingCard as algo, metrics and rank.                       *)
(***************************************************************************)
\* Largest time (ms) of a record in the panel
MaxRecordTime == 3

\* Most records the panel holds
MaxRecords == 3

PanelAlgos == {"quick", "merge", "bubble"}

Record(a, t) == [algo |-> a, time |-> t]

\* The records in the order the mapping yields them, one per algorithm
RecordLists ==
  {rs \in UNION {[1..n -> {Record(a, t) : a \in PanelAlgos,
                                          t \in 0..MaxRecordTime}]
                 : n \in 0..MaxRecords} :
     \A i, j \in 1..Len(rs) : i # j => rs[i].algo # rs[j].algo}

IsEligible(r) == r.time > 0

\* x placed behind every entry that is not slower than it (stable)
RECURSIVE InsertByTime(_, _)
InsertByTime(sorted, x) ==
  IF sorted = <<>> THEN <<x>>
  ELSE IF Head(sorted).time <= x.time
    THEN <<Head(sorted)>> \o InsertByTime(Tail(sorted), x)
  ELSE <<x>> \o sorted

RECURSIVE SortByTime(_, _)
SortByTime(rs, acc) ==
  IF rs = <<>> THEN acc
  ELSE SortByTime(Tail(rs), InsertByTime(acc, Head(rs)))

\* rank(records) without the eligibility filter
RankNoFilter(rs) ==
  LET sorted == SortByTime(rs, <<>>)
  IN [i \in 1..Len(sorted) |->
        [algo |-> sorted[i].algo, time |-> sorted[i].time, rank |-> i]]

\* rank(records): the eligible records, ascending by time, ranked from 1
Rank(rs) ==
  LET sorted == SortByTime(SelectSeq(rs, IsEligible), <<>>)
  IN [i \in 1..Len(sorted) |->
        [algo |-> sorted[i].algo, time |-> sorted[i].time, rank |-> i]]

PanelInit ==
  /\ records \in RecordLists
  /\ cards = [done |-> FALSE, list |-> <<>>]

PanelIdle ==
  /\ records = <<>>
  /\ cards = [done |-> FALSE, list |-> <<>>]

\* The panel renders one RankingCard per ranked entry
RenderPanel ==
  /\ ~cards.done
  /\ cards' = [done |-> TRUE, list |-> Rank(records)]
  /\ UNCHANGED records
  /\ UNCHANGED <<cardVars, overlayVars, soundVars>>

(***************************************************************************)
(* MobileOverlay.jsx                                                       *)
(*                                                                         *)
(* localStorage.getItem gives "null" for a key that was never set.         *)
(* requestAnimationFrame callbacks run in the order they were requested,   *)
(* before the next timer tick; a setTimeout callback runs when its delay   *)
(* has run out, callbacks of the same instant in the order they were set.  *)
(***************************************************************************)
MobileBreakpoint == 768

StageOneDelay == 200

StageTwoDelay == 400

StageThreeDelay == 600

HideDelay == 300

OrientationDebounce == 200

\* The clock advances in steps of 100 ms, which divides every delay
TickMs == OrientationDebounce \div 2

\* Times MobileOverlay is mounted (StrictMode and page loads mount it again)
MaxMounts == 2

\* Clicks on the overlay's two buttons
MaxClicks == 1

\* orientationchange events the window dispatches
MaxOrientationEvents == 1

Widths == {MobileBreakpoint, MobileBreakpoint + 1}

Timer(kind, ms, gen) == [kind |-> kind, left |-> ms \div TickMs, gen |-> gen]

IsMobileDeviceStrict(ua, width) == ua \/ width < MobileBreakpoint

\* /iPhone|iPad|.../i.test(navigator.userAgent) || window.innerWidth <= 768
IsMobileDevice(ua, width) == ua \/ width <= MobileBreakpoint

\* A page that has just loaded: nothing mounted, nothing scheduled
FreshPage ==
  /\ mounted = FALSE
  /\ hasRequestedDesktop = FALSE
  /\ listening = FALSE
  /\ animationStage = 0
  /\ visible = FALSE
  /\ bodyOverflow = ""
  /\ viewportScale = ""
  /\ desktopClass = FALSE
  /\ rafQueue = <<>>
  /\ timers = <<>>

\* The page loads anew: everything but localStorage starts over
PageLoad ==
  /\ mounted' = FALSE
  /\ hasRequestedDesktop' = FALSE
  /\ listening' = FALSE
  /\ animationStage' = 0
  /\ visible' = FALSE
  /\ bodyOverflow' = ""
  /\ viewportScale' = ""
  /\ desktopClass' = FALSE
  /\ rafQueue' = <<>>
  /\ timers' = <<>>

OverlayInit ==
  /\ lsContinue \in {"null", "true"}
  /\ lsDesktop \in {"null", "true"}
  /\ uaMobile \in BOOLEAN
  /\ innerWidth \in Widths
  /\ FreshPage
  /\ mounts = 0
  /\ clicks = 0
  /\ orientationEvents = 0

OverlayIdle ==
  /\ lsContinue = "null"
  /\ lsDesktop = "null"
  /\ uaMobile = FALSE
  /\ innerWidth = MobileBreakpoint + 1
  /\ FreshPage
  /\ mounts = 0
  /\ clicks = 0
  /\ orientationEvents = 0

NotOrientation(t) == t.kind # "orientation"

\* The effect of useEffect(..., []) when the component mounts
Mount ==
  /\ ~mounted
  /\ mounts < MaxMounts
  /\ mounted' = TRUE
  /\ mounts' = mounts + 1
  /\ animationStage' = 0
  /\ hasRequestedDesktop' = (lsDesktop = "true")
  /\ IF lsDesktop = "true"
     THEN \* desktop mode applied, then "return; // Don't show overlay"
          /\ viewportScale' = "0.8"
          /\ desktopClass' = TRUE
          /\ listening' = FALSE
          /\ UNCHANGED <<rafQueue, timers>>
     ELSE /\ IF IsMobileDevice(uaMobile, innerWidth) /\ lsContinue # "true"
             THEN /\ rafQueue' = Append(rafQueue, "show")
                  /\ timers' = timers \o
                       << Timer("stage1", StageOneDelay, mounts + 1),
                          Timer("stage2", StageTwoDelay, mounts + 1),
                          Timer("stage3", StageThreeDelay, mounts + 1) >>
             ELSE UNCHANGED <<rafQueue, timers>>
          /\ listening' = TRUE
          /\ UNCHANGED <<viewportScale, desktopClass>>
  /\ UNCHANGED <<lsContinue, lsDesktop, uaMobile, innerWidth, visible,
                 bodyOverflow, clicks, orientationEvents>>
  /\ UNCHANGED <<cardVars, panelVars, soundVars>>

\* The component unmounts; the effect's cleanup runs if it returned one
Unmount ==
  /\ mounted
  /\ mounted' = FALSE
  /\ listening' = FALSE
  /\ timers' = IF listening THEN SelectSeq(timers, NotOrientation) ELSE timers
  /\ UNCHANGED <<lsContinue, lsDesktop, uaMobile, innerWidth,
                 hasRequestedDesktop, animationStage, visible, bodyOverflow,
                 viewportScale, desktopClass, rafQueue, mounts, clicks,
                 orientationEvents>>
  /\ UNCHANGED <<cardVars, panelVars, soundVars>>

\* handleOrientationChange, if the listener was added
OrientationChange ==
  /\ orientationEvents < MaxOrientationEvents
  /\ orientationEvents' = orientationEvents + 1
  /\ timers' = IF listening /\ hasRequestedDesktop
               THEN Append(SelectSeq(timers, NotOrientation),
                           Timer("orientation", OrientationDebounce, mounts))
               ELSE timers
  /\ UNCHANGED <<lsContinue, lsDesktop, uaMobile, innerWidth, mounted,
                 hasRequestedDesktop, listening, animationStage, visible,
                 bodyOverflow, viewportScale, desktopClass, rafQueue, mounts,
                 clicks>>
  /\ UNCHANGED <<cardVars, panelVars, soundVars>>

\* handleContinue without the localStorage.setItem
HandleContinueForgetful ==
  /\ mounted /\ visible
  /\ clicks < MaxClicks
  /\ clicks' = clicks + 1
  /\ animationStage' = 4
  /\ rafQueue' = Append(rafQueue, "hideContinue")
  /\ UNCHANGED <<lsContinue, lsDesktop, uaMobile, innerWidth, mounted,
                 hasRequestedDesktop, listening, visible, bodyOverflow,
                 viewportScale, desktopClass, timers, mounts,
                 orientationEvents>>
  /\ UNCHANGED <<cardVars, panelVars, soundVars>>

\* handleContinue: the "Continue Anyway" button, shown while the overlay is
HandleContinue ==
  /\ mounted /\ visible
  /\ clicks < MaxClicks
  /\ clicks' = clicks + 1
  /\ animationStage' = 4
  /\ rafQueue' = Append(rafQueue, "hideContinue")
  /\ lsContinue' = "true"
  /\ UNCHANGED <<lsDesktop, uaMobile, innerWidth, mounted,
                 hasRequestedDesktop, listening, visible, bodyOverflow,
                 viewportScale, desktopClass, timers, mounts,
                 orientationEvents>>
  /\ UNCHANGED <<cardVars, panelVars, soundVars>>

\* handleRequestDesktop: the "Switch to Desktop Mode" button
HandleRequestDesktop ==
  /\ mounted /\ visible
  /\ clicks < MaxClicks
  /\ clicks' = clicks + 1
  /\ animationStage' = 4
  /\ rafQueue' = Append(rafQueue, "hideDesktop")
  /\ lsContinue' = "true"
  /\ UNCHANGED <<lsDesktop, uaMobile, innerWidth, mounted,
                 hasRequestedDesktop, listening, visible, bodyOverflow,
                 viewportScale, desktopClass, timers, mounts,
                 orientationEvents>>
  /\ UNCHANGED <<cardVars, panelVars, soundVars>>

\* The browser runs the oldest requestAnimationFrame callback
RafFire ==
  /\ rafQueue # <<>>
  /\ rafQueue' = Tail(rafQueue)
  /\ IF Head(rafQueue) = "show"
     THEN /\ visible' = TRUE
          /\ bodyOverflow' = "hidden"
          /\ UNCHANGED timers
     ELSE /\ timers' = Append(timers, Timer(Head(rafQueue), HideDelay, mounts))
          /\ UNCHANGED <<visible, bodyOverflow>>
  /\ UNCHANGED <<lsContinue, lsDesktop, uaMobile, innerWidth, mounted,
                 hasRequestedDesktop, listening, animationStage,
                 viewportScale, desktopClass, mounts, clicks,
                 orientationEvents>>
  /\ UNCHANGED <<cardVars, panelVars, soundVars>>

IsDue(t) == t.left = 0

\* 100 ms pass: no animation frame is waiting and no timer is due
Tick ==
  /\ rafQueue = <<>>
  /\ timers # <<>>
  /\ SelectSeq(timers, IsDue) = <<>>
  /\ timers' = [i \in 1..Len(timers) |->
                  [timers[i] EXCEPT !.left = timers[i].left - 1]]
  /\ UNCHANGED <<lsContinue, lsDesktop, uaMobile, innerWidth, mounted,
                 hasRequestedDesktop, listening, animationStage, visible,
                 bodyOverflow, viewportScale, desktopClass, rafQueue, mounts,
                 clicks, orientationEvents>>
  /\ UNCHANGED <<cardVars, panelVars, soundVars>>

\* The index of the oldest timer that is due
FirstDue == CHOOSE i \in 1..Len(timers) :
              /\ timers[i].left = 0
              /\ \A j \in 1..(i - 1) : timers[j].left # 0

Without(seq, i) == SubSeq(seq, 1, i - 1) \o SubSeq(seq, i + 1, Len(seq))

StageOf(kind) ==
  CASE kind = "stage1" -> 1 [] kind = "stage2" -> 2 [] kind = "stage3" -> 3

\* The callback of the oldest due setTimeout runs
TimerFire ==
  /\ SelectSeq(timers, IsDue) # <<>>
  /\ LET t == timers[FirstDue]
         rest == Without(timers, FirstDue)
     IN CASE t.kind \in {"stage1", "stage2", "stage3"} ->
               \* setAnimationStage(n) of the instance that set the timer
               /\ timers' = rest
               /\ animationStage' = IF mounted /\ t.gen = mounts
                                    THEN StageOf(t.kind) ELSE animationStage
               /\ UNCHANGED <<lsDesktop, mounted, hasRequestedDesktop,
                              listening, visible, bodyOverflow, viewportScale,
                              desktopClass, rafQueue>>
          [] t.kind = "hideContinue" ->
               /\ timers' = rest
               /\ visible' = FALSE
               /\ bodyOverflow' = "auto"
               /\ UNCHANGED <<lsDesktop, mounted, hasRequestedDesktop,
                              listening, animationStage, viewportScale,
                              desktopClass, rafQueue>>
          [] t.kind = "hideDesktop" ->
               \/ \* the injected script throws before link.click()
                  /\ timers' = rest
                  /\ viewportScale' = "0.8"
                  /\ desktopClass' = TRUE
                  /\ visible' = FALSE
                  /\ bodyOverflow' = "auto"
                  /\ UNCHANGED <<lsDesktop, mounted, hasRequestedDesktop,
                                 listening, animationStage, rafQueue>>
               \/ \* link.click() navigates to ?desktop=1, the flag is
                  \* stored, and the page loads anew
                  /\ lsDesktop' = "true"
                  /\ PageLoad
          [] t.kind = "orientation" ->
               /\ timers' = rest
               /\ viewportScale' = "0.8"
               /\ UNCHANGED <<lsDesktop, mounted, hasRequestedDesktop,
                              listening, animationStage, visible,
                              bodyOverflow, desktopClass, rafQueue>>
  /\ UNCHANGED <<lsContinue, uaMobile, innerWidth, mounts, clicks,
                 orientationEvents>>
  /\ UNCHANGED <<cardVars, panelVars, soundVars>>

(***************************************************************************)
(* SoundButton.jsx                                                         *)
(*                                                                         *)
(* handleToggle is async: it closes over the isEnabled of the render that  *)
(* created it and gives up control at each await.  handlers holds the      *)
(* calls in flight, with the value they captured and the await they are    *)
(* at.  audioEngine is a collaborator: each of its calls may reject.       *)
(***************************************************************************)
\* Clicks on the sound button
MaxToggles == 3

JSONStringify(b) == IF b THEN "true" ELSE "false"

JSONParse(str) == str = "true"

\* useState(() => { saved = getItem("soundEnabled");
\*                  return saved ? JSON.parse(saved) : false })
InitialEnabled(saved) == IF saved # "null" THEN JSONParse(saved) ELSE FALSE

Task(captured, pc) == [captured |-> captured, pc |-> pc]

SoundInit ==
  /\ lsSound \in {"null", "true", "false"}
  /\ isEnabled = InitialEnabled(lsSound)
  /\ pendingUpdates = <<>>
  /\ handlers = <<Task(InitialEnabled(lsSound), "setup")>>
  /\ engineInitialized = FALSE
  /\ toggles = 0

SoundIdle ==
  /\ lsSound = "null"
  /\ isEnabled = FALSE
  /\ pendingUpdates = <<>>
  /\ handlers = <<>>
  /\ engineInitialized = FALSE
  /\ toggles = 0

\* A click: handleToggle runs up to its first await
HandleToggle ==
  /\ toggles < MaxToggles
  /\ toggles' = toggles + 1
  /\ handlers' = Append(handlers,
                        Task(isEnabled,
                             IF engineInitialized THEN "switch" ELSE "init"))
  /\ UNCHANGED <<lsSound, isEnabled, pendingUpdates, engineInitialized>>
  /\ UNCHANGED <<cardVars, panelVars, overlayVars>>

\* setupSound of the effect: await audioEngine.init(), then enable or
\* disable; only the engine changes
SetupDone(i) ==
  /\ handlers[i].pc = "setup"
  /\ handlers' = Without(handlers, i)
  /\ \E ok \in BOOLEAN : engineInitialized' = (engineInitialized \/ ok)
  /\ UNCHANGED <<lsSound, isEnabled, pendingUpdates, toggles>>
  /\ UNCHANGED <<cardVars, panelVars, overlayVars>>

\* await audioEngine.init() of handleToggle settles
InitDone(i) ==
  /\ handlers[i].pc = "init"
  /\ \/ /\ engineInitialized' = TRUE
        /\ handlers' = [handlers EXCEPT ![i].pc = "switch"]
     \/ \* rejected: the catch logs and the handler ends
        /\ handlers' = Without(handlers, i)
        /\ UNCHANGED engineInitialized
  /\ UNCHANGED <<lsSound, isEnabled, pendingUpdates, toggles>>
  /\ UNCHANGED <<cardVars, panelVars, overlayVars>>

\* The tail of handleToggle storing the value it captured, not the next one
CommitStale(i) ==
  /\ pendingUpdates' = Append(pendingUpdates, ~handlers[i].captured)
  /\ lsSound' = JSONStringify(handlers[i].captured)

\* const nextState = !isEnabled; setIsEnabled(nextState);
\* localStorage.setItem("soundEnabled", JSON.stringify(nextState))
Commit(i) ==
  /\ pendingUpdates' = Append(pendingUpdates, ~handlers[i].captured)
  /\ lsSound' = JSONStringify(~handlers[i].captured)

\* await audioEngine.enableSound() / disableSound() settles
SwitchDone(i) ==
  /\ handlers[i].pc = "switch"
  /\ handlers' = Without(handlers, i)
  /\ \/ Commit(i)
     \/ \* rejected: the catch logs, nothing is set or stored
        UNCHANGED <<lsSound, pendingUpdates>>
  /\ UNCHANGED <<isEnabled, engineInitialized, toggles>>
  /\ UNCHANGED <<cardVars, panelVars, overlayVars>>

\* React applies the queued setIsEnabled calls and renders; the effect runs
\* again when isEnabled changed
Rerender ==
  /\ pendingUpdates # <<>>
  /\ isEnabled' = pendingUpdates[Len(pendingUpdates)]
  /\ pendingUpdates' = <<>>
  /\ handlers' = IF isEnabled' # isEnabled
                 THEN Append(handlers, Task(isEnabled', "setup"))
                 ELSE handlers
  /\ UNCHANGED <<lsSound, engineInitialized, toggles>>
  /\ UNCHANGED <<cardVars, panelVars, overlayVars>>

(***************************************************************************)
(* Specifications                                                          *)
(***************************************************************************)
\* The ranking card rendered with any props
Init == CardInit /\ PanelIdle /\ OverlayIdle /\ SoundIdle

Next == Render

Spec == Init /\ [][Next]_vars

\* The panel ranking any records
InitPanel == CardIdle /\ PanelInit /\ OverlayIdle /\ SoundIdle

NextPanel == RenderPanel

SpecPanel == InitPanel /\ [][NextPanel]_vars

\* The mobile overlay
InitOverlay == CardIdle /\ PanelIdle /\ OverlayInit /\ SoundIdle

NextOverlay ==
  \/ Mount
  \/ Unmount
  \/ OrientationChange
  \/ HandleContinue
  \/ HandleRequestDesktop
  \/ RafFire
  \/ Tick
  \/ TimerFire

SpecOverlay == InitOverlay /\ [][NextOverlay]_vars

\* The browser keeps producing animation frames
SpecOverlayFair == SpecOverlay /\ WF_vars(RafFire)

\* The sound button
InitSound == CardIdle /\ PanelIdle /\ OverlayIdle /\ SoundInit

NextSound ==
  \/ HandleToggle
  \/ \E i \in 1..Len(handlers) : SetupDone(i)
  \/ \E i \in 1..Len(handlers) : InitDone(i)
  \/ \E i \in 1..Len(handlers) : SwitchDone(i)
  \/ Rerender

SpecSound == InitSound /\ [][NextSound]_vars

(***************************************************************************)
(* Claims                                                                  *)
(***************************************************************************)
Abs(n) == IF n < 0 THEN -n ELSE n

\* The card was rendered for a candidate other than the current algorithm,
\* both with a measured time
BothMeasured ==
  /\ rendered
  /\ algo # algorithm
  /\ algoMetrics.time > 0
  /\ currentAlgoMetrics.defined
  /\ currentAlgoMetrics.time > 0

\* The exact percentage |r / b - 1| * 100 lies half way between two integers
IsHalfPercent(r, b) ==
  /\ (200 * Abs(r - b)) % b = 0
  /\ (100 * Abs(r - b)) % b # 0

NumNeg(x) == [x EXCEPT !.sign = -x.sign]

\* C1: the card shows a comparison exactly when the candidate's time is > 0,
\* the current algorithm has a record whose time is > 0, and the two ids
\* differ; in every other case it shows none.
C1_ComparisonOnlyWhenBothMeasured ==
  rendered =>
    (comparison.shown <=>
       /\ algo # algorithm
       /\ algoMetrics.time > 0
       /\ currentAlgoMetrics.defined
       /\ currentAlgoMetrics.time > 0)

\* C2: for times r > 0 and b > 0 of distinct algorithms the card says
\* "faster" exactly when r < b, with Math.round of the binary64 value of
\* -(r/b - 1) * 100, and "slower" otherwise (r = b included), with
\* Math.round of the binary64 value of (r/b - 1) * 100; the percent is an
\* integer nearest to the exact percentage, and 140 against 120 is slower 17.
C2_DirectionAndPercent ==
  BothMeasured =>
    LET r == algoMetrics.time
        b == currentAlgoMetrics.time
        delta == NumSubOne(NumDiv(r, b))
    IN /\ comparison.shown
       /\ comparison.percent.kind = "int"
       /\ r < b =>
            /\ comparison.direction = "faster"
            /\ comparison.percent = MathRound(NumMul(NumNeg(delta), 100))
       /\ r >= b =>
            /\ comparison.direction = "slower"
            /\ comparison.percent = MathRound(NumMul(delta, 100))
       /\ 2 * Abs(comparison.percent.val * b - 100 * Abs(r - b)) <= b
       /\ (r = 140 /\ b = 120) =>
            comparison.direction = "slower" /\ comparison.percent.val = 17

C2_Witness ==
  /\ BothMeasured
  /\ algoMetrics.time = 140
  /\ currentAlgoMetrics.time = 120
  /\ comparison.direction = "slower"
  /\ comparison.percent.val = 17

\* C3: when the exact percentage has fractional part one half, the percent
\* shown is the integer of larger magnitude, in the faster and in the slower
\* branch (199 and 201 against 200 both give 1).
C3_HalfRoundsAwayFromZero ==
  (BothMeasured /\ IsHalfPercent(algoMetrics.time, currentAlgoMetrics.time))
    => comparison.percent.val =
         ((100 * Abs(algoMetrics.time - currentAlgoMetrics.time))
            \div currentAlgoMetrics.time) + 1

\* C4: for positive times the percent shown is never negative: 0..100 when
\* faster, >= 0 when slower.
C4_PercentNeverNegative ==
  BothMeasured =>
    /\ comparison.shown
    /\ comparison.percent.kind = "int"
    /\ comparison.percent.val >= 0
    /\ comparison.direction = "faster" => comparison.percent.val <= 100

C4_Witness ==
  /\ BothMeasured
  /\ comparison.direction = "faster"
  /\ comparison.percent.val = 50

\* C5: the ranked sequence holds exactly the records with time > 0, each
\* once, ascending by time, and the ranks handed to the cards are 1..N, N
\* the number of eligible records.
C5_RankedEligibleAscending ==
  cards.done =>
    LET L == cards.list
        eligible == {i \in 1..Len(records) : records[i].time > 0}
    IN /\ Len(L) = Cardinality(eligible)
       /\ \A i \in eligible :
            \E j \in 1..Len(L) :
              L[j].algo = records[i].algo /\ L[j].time = records[i].time
       /\ \A j \in 1..Len(L) :
            /\ L[j].rank = j
            /\ \E i \in eligible :
                 L[j].algo = records[i].algo /\ L[j].time = records[i].time
       /\ \A j \in 1..(Len(L) - 1) : L[j].time <= L[j + 1].time

C5_Witness ==
  /\ cards.done
  /\ Len(records) = 3
  /\ records[1].time > records[3].time
  /\ records[3].time > 0
  /\ records[2].time = 0
  /\ Len(cards.list) = 2
  /\ cards.list[1].algo = records[3].algo

HasShow(q) == \E i \in 1..Len(q) : q[i] = "show"

\* C6: a mount schedules the overlay's appearance exactly when the device is
\* mobile (mobile user agent or width <= 768), 'continue-on-mobile' is not
\* 'true' and 'request-desktop-site' is not 'true'; a scheduled appearance
\* eventually makes the overlay visible with body scrolling locked; and the
\* overlay never becomes visible in any other way.
C6_ShownIffMobileAndNoChoice ==
  /\ [][(~mounted /\ mounted') =>
          (rafQueue' = Append(rafQueue, "show")
             <=> /\ uaMobile \/ innerWidth <= 768
                 /\ lsContinue # "true"
                 /\ lsDesktop # "true")]_vars
  /\ [][(~mounted /\ mounted') =>
          (rafQueue' = Append(rafQueue, "show") \/ rafQueue' = rafQueue)]_vars
  /\ [][(~visible /\ visible') =>
          (rafQueue # <<>> /\ Head(rafQueue) = "show")]_vars
  /\ (HasShow(rafQueue) ~> (visible /\ bodyOverflow = "hidden"))

C6_Witness ==
  /\ mounted
  /\ visible
  /\ bodyOverflow = "hidden"
  /\ ~uaMobile
  /\ innerWidth = 768
  /\ clicks = 0

HidePending ==
  \/ \E i \in 1..Len(rafQueue) : rafQueue[i] \in {"hideContinue", "hideDesktop"}
  \/ \E i \in 1..Len(timers) : timers[i].kind \in {"hideContinue", "hideDesktop"}

\* C7: once either button was clicked 'continue-on-mobile' is 'true', no
\* later mount schedules the overlay's appearance (not even one before the
\* click's hide timer has fired), and once hidden the overlay stays hidden.
C7_ChoiceRemembered ==
  /\ [](clicks > 0 => lsContinue = "true")
  /\ [][(clicks > 0 /\ ~mounted /\ mounted') => rafQueue' = rafQueue]_vars
  /\ [][(clicks > 0 /\ ~visible) => ~visible']_vars

\* A mount after the click, while the click's hide is still pending
C7_Witness ==
  /\ clicks > 0
  /\ mounted
  /\ mounts = 2
  /\ animationStage = 0
  /\ visible
  /\ HidePending
  /\ ~HasShow(rafQueue)

\* C8: with 'request-desktop-site' 'true' at mount, an orientationchange
\* event leaves a debounce timer pending that re-applies '--viewport-scale'.
C8_OrientationReapplies ==
  [][(orientationEvents' = orientationEvents + 1
        /\ mounted /\ hasRequestedDesktop)
       => \E i \in 1..Len(timers') : timers'[i].kind = "orientation"]_vars

\* C9: isEnabled starts as the stored 'soundEnabled' (false when nothing is
\* stored), and whenever no state update is pending the stored value, if
\* any, is the JSON text of isEnabled.
C9_StoredMatchesState ==
  pendingUpdates = <<>> =>
    \/ lsSound = "null" /\ ~isEnabled
    \/ lsSound = "true" /\ isEnabled
    \/ lsSound = "false" /\ ~isEnabled

C9_Witness ==
  /\ toggles >= 2
  /\ pendingUpdates = <<>>
  /\ handlers = <<>>
  /\ engineInitialized
  /\ lsSound = "false"
  /\ ~isEnabled

====
